---- MODULE Spec2Model ----
(***************************************************************************)
(* Model of the ARM64EC exception-handling fixture                         *)
(* (PEParser.Tests.DllARM64EC): the DllARM64EC_CppxdataUsage scenario      *)
(* object with its three methods, and the exported probes                  *)
(* ARM64EC_TestFunctionWithEH, ARM64EC_TestLongLong, ARM64EC_TestPointer.  *)
(*                                                                         *)
(* The program is modelled at statement granularity.  A call stack of      *)
(* frames [fn, pc, this] is kept; a raised C++ exception or SEH fault is   *)
(* dispatched by walking the handler scopes that enclose the raising pc,   *)
(* innermost first, and unwinding frames that have no matching handler.    *)
(***************************************************************************)
EXTENDS Integers, Sequences, FiniteSets, TLC

VARIABLES
    initShouldThrow, \* value of the in-class initializer of m_bShouldThrow in this build
    heap,            \* live DllARM64EC_CppxdataUsage objects: id -> [m_bShouldThrow]
    stack,           \* call stack, innermost frame last
    cur,             \* the exported entry point / method the caller invoked, with its arguments
    outcome,         \* "idle", "running", "returned" or "escaped" for the call in cur
    ret,             \* value returned to the caller: [bool, int, ptr]
    trace,           \* events of the current call, in program order
    returned         \* per function, the values its most recent calls returned to the caller

vars == <<initShouldThrow, heap, stack, cur, outcome, ret, trace, returned>>

----------------------------------------------------------------------------
(* Bounds *)

\* width of the machine word standing in for the 64-bit long long
WordBits == 3
\* largest address of the modelled address space
MaxPtr == 3
\* number of most recent return values remembered per function
MaxHistory == 2

----------------------------------------------------------------------------
(* Program constants and types *)

ShippedShouldThrow == TRUE

NullPtr == 0

AddressSpace == 0 .. MaxPtr

\* Addresses backed by memory.  The null page is never mapped, and the top
\* address stands for a wild, non-null, unmapped pointer.
Mapped == 1 .. (MaxPtr - 1)

Methods == {"MaybeThrow", "MaybeThrowWithSEH", "MaybeThrowNested"}

Exports == {"ARM64EC_TestFunctionWithEH", "ARM64EC_TestLongLong", "ARM64EC_TestPointer"}

CppKinds == {"std::exception", "std::runtime_error"}

AccessViolation == "EXCEPTION_ACCESS_VIOLATION"

Modulus == 2 ^ WordBits

LongLong == (0 - (Modulus \div 2)) .. ((Modulus \div 2) - 1)

----------------------------------------------------------------------------
(* Stack helpers *)

Top == stack[Len(stack)]

Pop(s) == SubSeq(s, 1, Len(s) - 1)

SetPc(s, pc) == [s EXCEPT ![Len(s)].pc = pc]

Frame(fn, pc, this) == [fn |-> fn, pc |-> pc, this |-> this]

At(fn, pc) == stack # <<>> /\ Top.fn = fn /\ Top.pc = pc

Event(ev, at, val) == [ev |-> ev, at |-> at, val |-> val]

BoolStr(b) == IF b THEN "true" ELSE "false"

\* History h extended by the return value v, keeping the most recent ones
Remember(h, v) == IF Len(h) < MaxHistory THEN Append(h, v) ELSE Append(Tail(h), v)

Range(h) == {h[i] : i \in DOMAIN h}

\* m_bShouldThrow as read through the this pointer of the running method
ShouldThrow == heap[Top.this].m_bShouldThrow

----------------------------------------------------------------------------
(* Exception dispatch *)

\* Does a handler clause accept a raised condition of the given kind?
\* std::runtime_error derives from std::exception.  A __except whose filter
\* is EXCEPTION_EXECUTE_HANDLER accepts every structured exception, the
\* ones that carry C++ exceptions included.  catch (...) is taken to accept
\* C++ exceptions only (no fault is ever raised beneath it in this program).
Matches(clause, kind) ==
    CASE clause = "catch (std::exception&)"             -> kind \in {"std::exception", "std::runtime_error"}
      [] clause = "catch (std::runtime_error&)"         -> kind = "std::runtime_error"
      [] clause = "catch (...)"                         -> kind \in CppKinds
      [] clause = "__except(EXCEPTION_EXECUTE_HANDLER)" -> TRUE
      [] OTHER                                          -> FALSE

Scope(clause, target) == [clause |-> clause, target |-> target]

\* Variant: the handler is typed to std::runtime_error
MaybeThrow_Scopes_WrongType(pc) ==
    IF pc \in {"MT11", "MT13"}
    THEN <<Scope("catch (std::runtime_error&)", "MT19")>>
    ELSE <<>>

\* Handler scopes of MaybeThrow that enclose pc, innermost first
MaybeThrow_Scopes(pc) ==
    IF pc \in {"MT11", "MT13"}
    THEN <<Scope("catch (std::exception&)", "MT19")>>
    ELSE <<>>

\* Variant: the inner filter declines the exception
MaybeThrowWithSEH_Scopes_InnerContinueSearch(pc) ==
    IF pc \in {"SEH35", "SEH38"}
    THEN <<Scope("__except(EXCEPTION_CONTINUE_SEARCH)", "SEH43"),
           Scope("__except(EXCEPTION_EXECUTE_HANDLER)", "SEH49")>>
    ELSE IF pc = "SEH43"
    THEN <<Scope("__except(EXCEPTION_EXECUTE_HANDLER)", "SEH49")>>
    ELSE <<>>

\* Handler scopes of MaybeThrowWithSEH that enclose pc, innermost first
MaybeThrowWithSEH_Scopes(pc) ==
    IF pc \in {"SEH35", "SEH38"}
    THEN <<Scope("__except(EXCEPTION_EXECUTE_HANDLER)", "SEH43"),
           Scope("__except(EXCEPTION_EXECUTE_HANDLER)", "SEH49")>>
    ELSE IF pc = "SEH43"
    THEN <<Scope("__except(EXCEPTION_EXECUTE_HANDLER)", "SEH49")>>
    ELSE <<>>

\* Variant: the outer handler is typed to std::runtime_error as well
MaybeThrowNested_Scopes_OuterTooNarrow(pc) ==
    IF pc \in {"MN63", "MN65"}
    THEN <<Scope("catch (std::runtime_error&)", "MN70"),
           Scope("catch (std::runtime_error&)", "MN76")>>
    ELSE IF pc \in {"MN70", "MN71"}
    THEN <<Scope("catch (std::runtime_error&)", "MN76")>>
    ELSE <<>>

\* Handler scopes of MaybeThrowNested that enclose pc, innermost first
MaybeThrowNested_Scopes(pc) ==
    IF pc \in {"MN63", "MN65"}
    THEN <<Scope("catch (std::runtime_error&)", "MN70"),
           Scope("catch (std::exception&)", "MN76")>>
    ELSE IF pc \in {"MN70", "MN71"}
    THEN <<Scope("catch (std::exception&)", "MN76")>>
    ELSE <<>>

\* Handler scopes of ARM64EC_TestFunctionWithEH that enclose pc
TestFunctionWithEH_Scopes(pc) ==
    IF pc \in {"EH119", "EH121", "EH125", "EH127", "EH131"}
    THEN <<Scope("catch (...)", "EH135")>>
    ELSE <<>>

Scopes(fn, pc) ==
    CASE fn = "MaybeThrow"                 -> MaybeThrow_Scopes(pc)
      [] fn = "MaybeThrowWithSEH"          -> MaybeThrowWithSEH_Scopes(pc)
      [] fn = "MaybeThrowNested"           -> MaybeThrowNested_Scopes(pc)
      [] fn = "ARM64EC_TestFunctionWithEH" -> TestFunctionWithEH_Scopes(pc)
      [] OTHER                             -> <<>>

\* Indices of the scopes in sc that accept kind
Accepting(sc, kind) == {i \in 1 .. Len(sc) : Matches(sc[i].clause, kind)}

\* The nearest enclosing scope that accepts kind
Nearest(sc, kind) == sc[CHOOSE i \in Accepting(sc, kind) : \A j \in Accepting(sc, kind) : i <= j]

\* The stack after a condition of the given kind is raised in the innermost
\* frame of s: control moves to the nearest accepting handler; frames with
\* no accepting handler are unwound.  <<>> when nothing handles it.
RECURSIVE Unwind(_, _)
Unwind(s, kind) ==
    IF s = <<>> THEN <<>>
    ELSE LET f  == s[Len(s)]
             sc == Scopes(f.fn, f.pc)
         IN  IF Accepting(sc, kind) # {}
             THEN SetPc(s, Nearest(sc, kind).target)
             ELSE Unwind(Pop(s), kind)

\* testObject is a local of ARM64EC_TestFunctionWithEH: it lives as long as
\* that frame does
HeapAfter(s) ==
    IF \E i \in 1 .. Len(s) : s[i].fn = "ARM64EC_TestFunctionWithEH"
    THEN heap
    ELSE [o \in DOMAIN heap \ {"testObject"} |-> heap[o]]

\* Raise a condition of the given kind at the current pc
Raise(ev, kind) ==
    LET s2 == Unwind(stack, kind)
    IN  /\ stack' = s2
        /\ heap' = HeapAfter(s2)
        /\ trace' = trace \o <<Event(ev, Top.pc, kind),
                               IF s2 = <<>> THEN Event("escape", Top.fn, kind)
                                            ELSE Event("catch", s2[Len(s2)].pc, kind)>>
        /\ outcome' = IF s2 = <<>> THEN "escaped" ELSE outcome
        /\ UNCHANGED <<initShouldThrow, cur, ret, returned>>

----------------------------------------------------------------------------
(* Returning *)

\* Variant: the results of the calls are tested without negation
AfterCall_NotNegated(pc, v) ==
    CASE pc = "EH119" -> (IF v THEN "EH121" ELSE "EH125")
      [] pc = "EH125" -> (IF v THEN "EH127" ELSE "EH131")
      [] OTHER        -> pc

\* Where ARM64EC_TestFunctionWithEH continues after a method called at pc
\* returned v
AfterCall(pc, v) ==
    CASE pc = "EH119" -> (IF ~v THEN "EH121" ELSE "EH125")
      [] pc = "EH125" -> (IF ~v THEN "EH127" ELSE "EH131")
      [] OTHER        -> pc

\* A method returns the boolean v, after the steps in evs
ReturnBool(evs, v) ==
    LET s2 == Pop(stack)
    IN  /\ trace' = trace \o evs \o <<Event("return", Top.pc, BoolStr(v))>>
        /\ IF s2 = <<>>
           THEN /\ stack' = <<>>
                /\ outcome' = "returned"
                /\ ret' = [ret EXCEPT !.bool = v]
                /\ returned' = [returned EXCEPT ![Top.fn] = Remember(@, v)]
           ELSE /\ stack' = SetPc(s2, AfterCall(s2[Len(s2)].pc, v))
                /\ UNCHANGED <<outcome, ret, returned>>
        /\ UNCHANGED <<initShouldThrow, heap, cur>>

\* Move the innermost frame to pc, nothing else changes
Goto(pc) ==
    /\ stack' = SetPc(stack, pc)
    /\ UNCHANGED <<initShouldThrow, heap, cur, outcome, ret, trace, returned>>

----------------------------------------------------------------------------
(* DllARM64EC_CppxdataUsage::MaybeThrow *)

MaybeThrow_Test ==
    /\ At("MaybeThrow", "MT11")
    /\ Goto(IF ShouldThrow THEN "MT13" ELSE "MT23")

MaybeThrow_Throw ==
    /\ At("MaybeThrow", "MT13")
    /\ Raise("throw", "std::exception")

\* Variant: the handler disarms the object
MaybeThrow_Catch_ClearsFlag ==
    /\ At("MaybeThrow", "MT19")
    /\ LET s2 == Pop(stack)
       IN  /\ trace' = trace \o <<Event("print", "MT19", "Caught exception"),
                                  Event("return", "MT19", "false")>>
           /\ heap' = [heap EXCEPT ![Top.this].m_bShouldThrow = FALSE]
           /\ IF s2 = <<>>
              THEN /\ stack' = <<>>
                   /\ outcome' = "returned"
                   /\ ret' = [ret EXCEPT !.bool = FALSE]
                   /\ returned' = [returned EXCEPT ![Top.fn] = Remember(@, FALSE)]
              ELSE /\ stack' = SetPc(s2, AfterCall(s2[Len(s2)].pc, FALSE))
                   /\ UNCHANGED <<outcome, ret, returned>>
           /\ UNCHANGED <<initShouldThrow, cur>>

MaybeThrow_Catch ==
    /\ At("MaybeThrow", "MT19")
    /\ ReturnBool(<<Event("print", "MT19", "Caught exception")>>, FALSE)

MaybeThrow_ReturnTrue ==
    /\ At("MaybeThrow", "MT23")
    /\ ReturnBool(<<>>, TRUE)

----------------------------------------------------------------------------
(* DllARM64EC_CppxdataUsage::MaybeThrowWithSEH *)

\* Variant: the test is inverted
MaybeThrowWithSEH_Test_Inverted ==
    /\ At("MaybeThrowWithSEH", "SEH35")
    /\ Goto(IF ~ShouldThrow THEN "SEH38" ELSE "SEH53")

MaybeThrowWithSEH_Test ==
    /\ At("MaybeThrowWithSEH", "SEH35")
    /\ Goto(IF ShouldThrow THEN "SEH38" ELSE "SEH53")

\* char* p = nullptr; *p = 'X';  A store to an address with no memory
\* behind it raises the access-violation fault at the storing instruction.
MaybeThrowWithSEH_Store ==
    /\ At("MaybeThrowWithSEH", "SEH38")
    /\ LET p == NullPtr
       IN  IF p \in Mapped
           THEN /\ stack' = SetPc(stack, "SEH53")
                /\ trace' = Append(trace, Event("store", "SEH38", "X"))
                /\ UNCHANGED <<initShouldThrow, heap, cur, outcome, ret, returned>>
           ELSE Raise("fault", AccessViolation)

\* Body of the inner (SEH43) or the outer (SEH49) __except block
MaybeThrowWithSEH_Except ==
    /\ stack # <<>>
    /\ Top.fn = "MaybeThrowWithSEH"
    /\ Top.pc \in {"SEH43", "SEH49"}
    /\ ReturnBool(<<Event("print", Top.pc,
                          IF Top.pc = "SEH43"
                          THEN "ARM64EC SEH inner exception handled"
                          ELSE "ARM64EC SEH outer exception handled")>>, FALSE)

MaybeThrowWithSEH_ReturnTrue ==
    /\ At("MaybeThrowWithSEH", "SEH53")
    /\ ReturnBool(<<Event("print", "SEH53", "ARM64EC SEH no exception: 0")>>, TRUE)

----------------------------------------------------------------------------
(* DllARM64EC_CppxdataUsage::MaybeThrowNested *)

\* Variant: the throw is unconditional
MaybeThrowNested_Test_Always ==
    /\ At("MaybeThrowNested", "MN63")
    /\ Goto("MN65")

MaybeThrowNested_Test ==
    /\ At("MaybeThrowNested", "MN63")
    /\ Goto(IF ShouldThrow THEN "MN65" ELSE "MN80")

MaybeThrowNested_ThrowInner ==
    /\ At("MaybeThrowNested", "MN65")
    /\ Raise("throw", "std::runtime_error")

\* catch (std::runtime_error& inner) { printf(...);
MaybeThrowNested_CatchInner ==
    /\ At("MaybeThrowNested", "MN70")
    /\ stack' = SetPc(stack, "MN71")
    /\ trace' = Append(trace, Event("print", "MN70", "ARM64EC inner catch"))
    /\ UNCHANGED <<initShouldThrow, heap, cur, outcome, ret, returned>>

\* Variant: the handler rethrows the exception it caught (throw;)
MaybeThrowNested_ThrowFromHandler_PlainRethrow ==
    /\ At("MaybeThrowNested", "MN71")
    /\ Raise("throw", "std::runtime_error")

\* throw std::exception("ARM64EC re-throw from nested"); raised from inside
\* the inner handler, which only the outer try block encloses
MaybeThrowNested_ThrowFromHandler ==
    /\ At("MaybeThrowNested", "MN71")
    /\ Raise("throw", "std::exception")

MaybeThrowNested_CatchOuter ==
    /\ At("MaybeThrowNested", "MN76")
    /\ ReturnBool(<<Event("print", "MN76", "ARM64EC outer catch")>>, FALSE)

MaybeThrowNested_ReturnTrue ==
    /\ At("MaybeThrowNested", "MN80")
    /\ ReturnBool(<<>>, TRUE)

----------------------------------------------------------------------------
(* ARM64EC_TestFunctionWithEH *)

\* DllARM64EC_CppxdataUsage testObject;
TestFunctionWithEH_Construct ==
    /\ At("ARM64EC_TestFunctionWithEH", "EH115")
    /\ heap' = [o \in DOMAIN heap \cup {"testObject"} |->
                   IF o = "testObject"
                   THEN [m_bShouldThrow |-> initShouldThrow]
                   ELSE heap[o]]
    /\ stack' = SetPc(stack, "EH119")
    /\ UNCHANGED <<initShouldThrow, cur, outcome, ret, trace, returned>>

\* Call of a method on testObject from the current pc
CallOnTestObject(method, entry) ==
    /\ stack' = Append(stack, Frame(method, entry, "testObject"))
    /\ trace' = Append(trace, Event("call", Top.pc, method))
    /\ UNCHANGED <<initShouldThrow, heap, cur, outcome, ret, returned>>

TestFunctionWithEH_CallMaybeThrow ==
    /\ At("ARM64EC_TestFunctionWithEH", "EH119")
    /\ CallOnTestObject("MaybeThrow", "MT11")

TestFunctionWithEH_CallMaybeThrowNested ==
    /\ At("ARM64EC_TestFunctionWithEH", "EH125")
    /\ CallOnTestObject("MaybeThrowNested", "MN63")

\* The value returned by the return statement at pc
ReturnCode(pc) ==
    CASE pc = "EH121" -> 1
      [] pc = "EH127" -> 2
      [] pc = "EH131" -> 0
      [] pc = "EH135" -> 0 - 1

CodeStr(c) ==
    CASE c = 0 -> "0" [] c = 1 -> "1" [] c = 2 -> "2" [] OTHER -> "-1"

\* One of the four return statements of ARM64EC_TestFunctionWithEH
TestFunctionWithEH_Return ==
    /\ stack # <<>>
    /\ Top.fn = "ARM64EC_TestFunctionWithEH"
    /\ Top.pc \in {"EH121", "EH127", "EH131", "EH135"}
    /\ LET c == ReturnCode(Top.pc)
       IN  /\ stack' = Pop(stack)
           /\ heap' = HeapAfter(Pop(stack))
           /\ outcome' = "returned"
           /\ ret' = [ret EXCEPT !.int = c]
           /\ returned' = [returned EXCEPT ![Top.fn] = Remember(@, c)]
           /\ trace' = trace
                       \o (IF Top.pc = "EH131" THEN <<>> ELSE <<Event("print", Top.pc, "")>>)
                       \o <<Event("return", Top.pc, CodeStr(c))>>
    /\ UNCHANGED <<initShouldThrow, cur>>

----------------------------------------------------------------------------
(* ARM64EC_TestLongLong *)

\* Bit pattern of a signed value, and the signed value of a bit pattern
ToUnsigned(x) == x % Modulus

ToSigned(u) == IF u >= Modulus \div 2 THEN u - Modulus ELSE u

\* Bitwise exclusive or of the low n bits of two bit patterns
RECURSIVE BitXor(_, _, _)
BitXor(u, v, n) ==
    IF n = 0 THEN 0
    ELSE (IF (u % 2) # (v % 2) THEN 1 ELSE 0) + 2 * BitXor(u \div 2, v \div 2, n - 1)

Mul(a, b) == ToSigned((ToUnsigned(a) * ToUnsigned(b)) % Modulus)

Xor(a, b) == ToSigned(BitXor(ToUnsigned(a), ToUnsigned(b), WordBits))

Add(a, b) == ToSigned((ToUnsigned(a) + ToUnsigned(b)) % Modulus)

\* Variant: a * (b + (a ^ b))
TestLongLong_WrongPrecedence(a, b) == Mul(a, Add(b, Xor(a, b)))

\* return a * b + (a ^ b);
TestLongLong(a, b) == Add(Mul(a, b), Xor(a, b))

TestLongLong_Return ==
    /\ At("ARM64EC_TestLongLong", "LL143")
    /\ stack' = Pop(stack)
    /\ outcome' = "returned"
    /\ ret' = [ret EXCEPT !.int = TestLongLong(cur.a, cur.b)]
    /\ trace' = Append(trace, Event("return", "LL143", ""))
    /\ UNCHANGED <<initShouldThrow, heap, cur, returned>>

----------------------------------------------------------------------------
(* ARM64EC_TestPointer *)

\* Variant: the report is not guarded by the null test
TestPointer_Test_NoNullCheck ==
    /\ At("ARM64EC_TestPointer", "TP154")
    /\ Goto("TP156")

\* if (ptr)
TestPointer_Test ==
    /\ At("ARM64EC_TestPointer", "TP154")
    /\ Goto(IF cur.ptr # NullPtr THEN "TP156" ELSE "TP158")

\* printf("... %p\n", ptr): formats the address, does not read through it
TestPointer_Print ==
    /\ At("ARM64EC_TestPointer", "TP156")
    /\ stack' = SetPc(stack, "TP158")
    /\ trace' = Append(trace, Event("print", "TP156", "ARM64EC pointer test"))
    /\ UNCHANGED <<initShouldThrow, heap, cur, outcome, ret, returned>>

\* return ptr;
TestPointer_Return ==
    /\ At("ARM64EC_TestPointer", "TP158")
    /\ stack' = Pop(stack)
    /\ outcome' = "returned"
    /\ ret' = [ret EXCEPT !.ptr = cur.ptr]
    /\ trace' = Append(trace, Event("return", "TP158", ""))
    /\ UNCHANGED <<initShouldThrow, heap, cur, returned>>

----------------------------------------------------------------------------
(* The caller: an external harness that invokes one entry point at a time  *)

NoRet == [bool |-> FALSE, int |-> 0, ptr |-> 0]

Ready == stack = <<>> /\ outcome \in {"idle", "returned"}

\* A fresh call from the harness
Enter(fn, entry, this, a, b, ptr) ==
    /\ stack' = <<Frame(fn, entry, this)>>
    /\ cur' = [fn |-> fn, a |-> a, b |-> b, ptr |-> ptr]
    /\ outcome' = "running"
    /\ ret' = NoRet
    /\ trace' = <<>>
    /\ UNCHANGED <<initShouldThrow, heap, returned>>

Entry(method) ==
    CASE method = "MaybeThrow"        -> "MT11"
      [] method = "MaybeThrowWithSEH" -> "SEH35"
      [] method = "MaybeThrowNested"  -> "MN63"

\* A method invoked on the long-lived object "obj"
Call_Method ==
    /\ Ready
    /\ \E m \in Methods : Enter(m, Entry(m), "obj", 0, 0, 0)

Call_TestFunctionWithEH ==
    /\ Ready
    /\ Enter("ARM64EC_TestFunctionWithEH", "EH115", "none", 0, 0, 0)

Call_TestLongLong ==
    /\ Ready
    /\ \E a \in LongLong, b \in LongLong :
           Enter("ARM64EC_TestLongLong", "LL143", "none", a, b, 0)

Call_TestPointer ==
    /\ Ready
    /\ \E p \in AddressSpace :
           Enter("ARM64EC_TestPointer", "TP154", "none", 0, 0, p)

----------------------------------------------------------------------------
(* Specification *)

\* The object "obj" is constructed with the in-class initializer of the
\* build; the build is either the shipped one or one with the flag clear.
Init ==
    /\ initShouldThrow \in BOOLEAN
    /\ heap = [o \in {"obj"} |-> [m_bShouldThrow |-> initShouldThrow]]
    /\ stack = <<>>
    /\ cur = [fn |-> "none", a |-> 0, b |-> 0, ptr |-> 0]
    /\ outcome = "idle"
    /\ ret = NoRet
    /\ trace = <<>>
    /\ returned = [f \in Methods \cup {"ARM64EC_TestFunctionWithEH"} |-> <<>>]

Next ==
    \/ Call_Method
    \/ Call_TestFunctionWithEH
    \/ Call_TestLongLong
    \/ Call_TestPointer
    \/ MaybeThrow_Test
    \/ MaybeThrow_Throw
    \/ MaybeThrow_Catch
    \/ MaybeThrow_ReturnTrue
    \/ MaybeThrowWithSEH_Test
    \/ MaybeThrowWithSEH_Store
    \/ MaybeThrowWithSEH_Except
    \/ MaybeThrowWithSEH_ReturnTrue
    \/ MaybeThrowNested_Test
    \/ MaybeThrowNested_ThrowInner
    \/ MaybeThrowNested_CatchInner
    \/ MaybeThrowNested_ThrowFromHandler
    \/ MaybeThrowNested_CatchOuter
    \/ MaybeThrowNested_ReturnTrue
    \/ TestFunctionWithEH_Construct
    \/ TestFunctionWithEH_CallMaybeThrow
    \/ TestFunctionWithEH_CallMaybeThrowNested
    \/ TestFunctionWithEH_Return
    \/ TestLongLong_Return
    \/ TestPointer_Test
    \/ TestPointer_Print
    \/ TestPointer_Return

Spec == Init /\ [][Next]_vars

TypeOK ==
    /\ initShouldThrow \in BOOLEAN
    /\ DOMAIN heap \subseteq {"obj", "testObject"}
    /\ outcome \in {"idle", "running", "returned", "escaped"}
    /\ Len(stack) <= 2

----------------------------------------------------------------------------
(* Vocabulary of the properties *)

Pcs(fn) ==
    CASE fn = "MaybeThrow"                 -> {"MT11", "MT13", "MT19", "MT23"}
      [] fn = "MaybeThrowWithSEH"          -> {"SEH35", "SEH38", "SEH43", "SEH49", "SEH53"}
      [] fn = "MaybeThrowNested"           -> {"MN63", "MN65", "MN70", "MN71", "MN76", "MN80"}
      [] fn = "ARM64EC_TestFunctionWithEH" -> {"EH115", "EH119", "EH121", "EH125", "EH127", "EH131", "EH135"}
      [] fn = "ARM64EC_TestLongLong"       -> {"LL143"}
      [] fn = "ARM64EC_TestPointer"        -> {"TP154", "TP156", "TP158"}

\* pcs inside a catch block or an __except block of a method
HandlerPcs == {"MT19", "SEH43", "SEH49", "MN70", "MN71", "MN76"}

Orchestrator == "ARM64EC_TestFunctionWithEH"

\* Positions of the trace whose event is of one of the given sorts
EventsOf(sorts) == {i \in DOMAIN trace : trace[i].ev \in sorts}

\* The flag of the object the harness calls methods on
FlagOfObj == heap["obj"].m_bShouldThrow

Returned(fn) == cur.fn = fn /\ outcome = "returned"

IsPrefix(p, q) == Len(p) <= Len(q) /\ \A i \in DOMAIN p : p[i] = q[i]

----------------------------------------------------------------------------
(* C1: with the trigger flag set, MaybeThrow, MaybeThrowWithSEH and        *)
(* MaybeThrowNested each return false; every exception or fault raised is  *)
(* caught by a handler of the operation that raised it, and nothing        *)
(* propagates to the caller.                                               *)
C1_SetFlagReturnsFalseAndContains ==
    /\ outcome # "escaped"
    /\ \A i \in EventsOf({"throw", "fault"}) :
          /\ i < Len(trace)
          /\ trace[i + 1].ev = "catch"
          /\ \E m \in Methods : {trace[i].at, trace[i + 1].at} \subseteq Pcs(m)
    /\ FlagOfObj =>
          /\ \A m \in Methods : Range(returned[m]) \subseteq {FALSE}
          /\ \A m \in Methods : Returned(m) => ret.bool = FALSE
          /\ \A m \in Methods : (cur.fn = m /\ stack # <<>>) => Top.fn = m

C1_Witness ==
    /\ FlagOfObj
    /\ Returned("MaybeThrowWithSEH")
    /\ ret.bool = FALSE
    /\ EventsOf({"fault"}) # {}
    /\ returned["MaybeThrow"] # <<>>
    /\ returned["MaybeThrowNested"] # <<>>

(* C2: with the trigger flag clear, each of the three methods returns      *)
(* true, and no throw, no invalid store and no handler body is executed    *)
(* on the way.                                                             *)
C2_ClearFlagReturnsTrueQuietly ==
    (~FlagOfObj) =>
        \A m \in Methods :
            /\ Range(returned[m]) \subseteq {TRUE}
            /\ cur.fn = m =>
                  /\ EventsOf({"throw", "fault", "store", "catch", "escape"}) = {}
                  /\ \A i \in DOMAIN trace : trace[i].at \notin HandlerPcs
                  /\ stack # <<>> => Top.pc \notin HandlerPcs \cup {"MT13", "SEH38", "MN65"}
                  /\ outcome # "escaped"
                  /\ outcome = "returned" => ret.bool = TRUE

C2_Witness ==
    /\ ~FlagOfObj
    /\ Returned("MaybeThrowWithSEH")
    /\ ret.bool = TRUE
    /\ returned["MaybeThrow"] # <<>>
    /\ returned["MaybeThrowNested"] # <<>>

(* C3: ARM64EC_TestFunctionWithEH returns a value in {0, 1, 2} for either  *)
(* value of the flag; its catch (...) handler is never entered and -1 is   *)
(* never returned.                                                         *)
C3_OrchestratorNeverMinusOne ==
    /\ Range(returned[Orchestrator]) \subseteq {0, 1, 2}
    /\ \A i \in DOMAIN stack : stack[i].pc # "EH135"
    /\ \A i \in DOMAIN trace : trace[i].at # "EH135"
    /\ cur.fn = Orchestrator => outcome # "escaped"
    /\ Returned(Orchestrator) => ret.int \in {0, 1, 2}

C3_Witness ==
    /\ Returned(Orchestrator)
    /\ EventsOf({"throw"}) # {}
    /\ EventsOf({"catch"}) # {}
    /\ ret.int \in {0, 1, 2}

(* C4: ARM64EC_TestFunctionWithEH returns 1 when the flag is set and 0     *)
(* when it is clear; MaybeThrow is the first call it makes and, when that  *)
(* triggers, MaybeThrowNested is not called; with the shipped initializer  *)
(* the result is 1.                                                        *)
C4_OrchestratorCode ==
    cur.fn = Orchestrator =>
        /\ trace # <<>> => trace[1] = Event("call", "EH119", "MaybeThrow")
        /\ initShouldThrow =>
              \A i \in EventsOf({"call"}) : trace[i].val # "MaybeThrowNested"
        /\ outcome = "returned" =>
              /\ ret.int = (IF initShouldThrow THEN 1 ELSE 0)
              /\ initShouldThrow = ShippedShouldThrow => ret.int = 1

C4_Witness ==
    /\ Returned(Orchestrator)
    /\ initShouldThrow = ShippedShouldThrow
    /\ ret.int = 1

(* C5: ARM64EC_TestLongLong(a, b) is a*b + (a XOR b) reduced modulo        *)
(* 2^WordBits into the signed range, for all pairs of the word width,      *)
(* negative and overflowing ones included, whatever the rest of the state. *)
RECURSIVE SignedXor(_, _)
SignedXor(a, b) ==
    IF a \in {0, 0 - 1} /\ b \in {0, 0 - 1}
    THEN (IF a = b THEN 0 ELSE 0 - 1)
    ELSE 2 * SignedXor(a \div 2, b \div 2) + (IF (a % 2) = (b % 2) THEN 0 ELSE 1)

Exact(a, b) == a * b + SignedXor(a, b)

C5_LongLongWraps ==
    Returned("ARM64EC_TestLongLong") =>
        /\ ret.int \in LongLong
        /\ (ret.int - Exact(cur.a, cur.b)) % Modulus = 0

C5_Witness ==
    /\ Returned("ARM64EC_TestLongLong")
    /\ cur.a < 0
    /\ cur.b > 0
    /\ Exact(cur.a, cur.b) \notin LongLong
    /\ (ret.int - Exact(cur.a, cur.b)) % Modulus = 0

(* C6: ARM64EC_TestPointer returns its argument unchanged for every        *)
(* address, null included, without any access through it and without a     *)
(* fault; the report is printed only when the argument is not null.        *)
C6_PointerIdentity ==
    cur.fn = "ARM64EC_TestPointer" =>
        /\ outcome # "escaped"
        /\ EventsOf({"store", "load", "fault", "throw"}) = {}
        /\ EventsOf({"print"}) # {} => cur.ptr # NullPtr
        /\ outcome = "returned" =>
              /\ ret.ptr = cur.ptr
              /\ cur.ptr # NullPtr => Cardinality(EventsOf({"print"})) = 1

C6_Witness ==
    /\ Returned("ARM64EC_TestPointer")
    /\ cur.ptr = NullPtr
    /\ ret.ptr = NullPtr
    /\ EventsOf({"print"}) = {}

(* C7: no step changes m_bShouldThrow of a live object, and the results    *)
(* remembered for repeated calls of one method on the same object are all  *)
(* equal.                                                                  *)
C7_FlagFixed ==
    [][ /\ \A o \in DOMAIN heap \cap DOMAIN heap' : heap'[o] = heap[o]
        /\ \A m \in Methods : \A i, j \in DOMAIN returned'[m] :
              returned'[m][i] = returned'[m][j] ]_vars

C7_Witness ==
    /\ \A m \in Methods : Len(returned[m]) >= 2
    /\ FlagOfObj
    /\ Returned("MaybeThrow")

(* C8: in MaybeThrowWithSEH the fault of the invalid store is taken by the *)
(* inner __except block, which returns false; the outer __except block is  *)
(* never executed, flag set or clear.                                      *)
C8_InnerExceptHandles ==
    /\ \A i \in DOMAIN stack : stack[i].pc # "SEH49"
    /\ \A i \in DOMAIN trace : trace[i].at # "SEH49"
    /\ \A i \in EventsOf({"fault"}) :
          /\ trace[i] = Event("fault", "SEH38", AccessViolation)
          /\ i < Len(trace)
          /\ trace[i + 1] = Event("catch", "SEH43", AccessViolation)
    /\ (Returned("MaybeThrowWithSEH") /\ FlagOfObj) =>
          /\ trace[Len(trace)] = Event("return", "SEH43", "false")
          /\ ret.bool = FALSE

C8_Witness ==
    /\ Returned("MaybeThrowWithSEH")
    /\ FlagOfObj
    /\ \E i \in DOMAIN trace : trace[i] = Event("catch", "SEH43", AccessViolation)
    /\ ret.bool = FALSE

(* C9: MaybeThrowNested with the flag set runs exactly this sequence:      *)
(* std::runtime_error thrown in the inner scope, caught by the inner       *)
(* handler, std::exception thrown from that handler, caught by the outer   *)
(* handler (not by the inner one again), false returned.                   *)
NestedSequence ==
    << Event("throw", "MN65", "std::runtime_error"),
       Event("catch", "MN70", "std::runtime_error"),
       Event("print", "MN70", "ARM64EC inner catch"),
       Event("throw", "MN71", "std::exception"),
       Event("catch", "MN76", "std::exception"),
       Event("print", "MN76", "ARM64EC outer catch"),
       Event("return", "MN76", "false") >>

C9_NestedOrder ==
    (cur.fn = "MaybeThrowNested" /\ FlagOfObj) =>
        /\ IsPrefix(trace, NestedSequence)
        /\ outcome = "returned" => (trace = NestedSequence /\ ret.bool = FALSE)
        /\ outcome # "escaped"

C9_Witness ==
    /\ Returned("MaybeThrowNested")
    /\ FlagOfObj
    /\ trace = NestedSequence

(* C10: ARM64EC_TestFunctionWithEH never returns 2: MaybeThrowNested runs  *)
(* on testObject only with the flag clear and then returns true; and       *)
(* MaybeThrowWithSEH is never called by it.                                *)
C10_NeverTwo ==
    /\ 2 \notin Range(returned[Orchestrator])
    /\ Returned(Orchestrator) => ret.int # 2
    /\ \A i \in DOMAIN stack :
          /\ stack[i].pc # "EH127"
          /\ stack[i].fn = "MaybeThrowWithSEH" => (i = 1 /\ stack[i].this = "obj")
          /\ (stack[i].fn = "MaybeThrowNested" /\ stack[i].this = "testObject") =>
                ~heap["testObject"].m_bShouldThrow
    /\ cur.fn = Orchestrator =>
          \A i \in DOMAIN trace :
              /\ trace[i].at \notin Pcs("MaybeThrowWithSEH")
              /\ trace[i].val # "MaybeThrowWithSEH"
              /\ (trace[i].ev = "return" /\ trace[i].at \in Pcs("MaybeThrowNested")) =>
                    trace[i] = Event("return", "MN80", "true")
              /\ (trace[i].ev = "call" /\ trace[i].val = "MaybeThrowNested") =>
                    (i > 1 /\ trace[i - 1] = Event("return", "MT23", "true"))

C10_Witness ==
    /\ Returned(Orchestrator)
    /\ \E i \in DOMAIN trace : trace[i] = Event("return", "MN80", "true")
    /\ ret.int = 0

====
